---- MODULE Spec2Model ----
(***************************************************************************)
(* Model of the book lending program (src/src/main.rs): the catalog store  *)
(* (load_data / save_data over library_data.json) and the menu session     *)
(* (view, borrow, return, exit).                                           *)
(*                                                                         *)
(* Conventions.  A Rust String is a tuple of one-character strings, so     *)
(* that trim, to_lowercase and parse::<usize> are computed character by    *)
(* character.  Vec indices are 1-based here (Rust index i is i+1).  The    *)
(* text of the storage file is kept as the JSON value it denotes (valid =  *)
(* FALSE when the text is not JSON at all, e.g. a truncated write).        *)
(***************************************************************************)
EXTENDS Integers, Sequences, FiniteSets, TLC

\* ---------------------------------------------------------------- bounds
\* largest catalog found in a pre-existing storage file
MaxBooks == 2
\* copies_total of the books in a pre-existing storage file (their
\* copies_available ranges from 0 to one more than that)
MaxCopies == 1
\* how many writes of the storage file may fail in one behaviour
MaxWriteFailures == 1

\* ------------------------------------------------------- string literals
sB001 == <<"B", "0", "0", "1">>
sB002 == <<"B", "0", "0", "2">>
sB003 == <<"B", "0", "0", "3">>
sB004 == <<"B", "0", "0", "4">>
s1984 == <<"1", "9", "8", "4">>
sOrwell == <<"G", "e", "o", "r", "g", "e", " ", "O", "r", "w", "e", "l", "l">>
sPride == <<"P", "r", "i", "d", "e", " ", "a", "n", "d", " ",
            "P", "r", "e", "j", "u", "d", "i", "c", "e">>
sAusten == <<"J", "a", "n", "e", " ", "A", "u", "s", "t", "e", "n">>
sMockingbird == <<"T", "o", " ", "K", "i", "l", "l", " ", "a", " ",
                  "M", "o", "c", "k", "i", "n", "g", "b", "i", "r", "d">>
sLee == <<"H", "a", "r", "p", "e", "r", " ", "L", "e", "e">>
sGatsby == <<"T", "h", "e", " ", "G", "r", "e", "a", "t", " ",
             "G", "a", "t", "s", "b", "y">>
sFitzgerald == <<"F", ".", " ", "S", "c", "o", "t", "t", " ",
                 "F", "i", "t", "z", "g", "e", "r", "a", "l", "d">>

\* ------------------------------------------------------------ data model
Book(id, title, author, total, available) ==
    [id |-> id, title |-> title, author |-> author,
     copies_total |-> total, copies_available |-> available]

Library(books) == [books |-> books]

default_library ==
    Library(<< Book(sB001, s1984, sOrwell, 3, 3),
               Book(sB002, sPride, sAusten, 2, 2),
               Book(sB003, sMockingbird, sLee, 4, 4),
               Book(sB004, sGatsby, sFitzgerald, 2, 2) >>)

\* ------------------------------------------------- JSON values (serde_json)
\* every value carries all four fields so that any two values compare
JStr(s) == [t |-> "str", s |-> s, n |-> 0, items |-> <<>>]
JNum(n) == [t |-> "num", s |-> <<>>, n |-> n, items |-> <<>>]
JArr(vals) == [t |-> "arr", s |-> <<>>, n |-> 0,
               items |-> [i \in 1..Len(vals) |-> [k |-> "", v |-> vals[i]]]]
JObj(members) == [t |-> "obj", s |-> <<>>, n |-> 0, items |-> members]
JNull == [t |-> "null", s |-> <<>>, n |-> 0, items |-> <<>>]
Member(k, v) == [k |-> k, v |-> v]

\* SerializeBook with the two counts written under each other's key
SerializeBook_swapped(book) ==
    JObj(<< Member("id", JStr(book.id)),
            Member("title", JStr(book.title)),
            Member("author", JStr(book.author)),
            Member("copies_total", JNum(book.copies_available)),
            Member("copies_available", JNum(book.copies_total)) >>)

\* #[derive(Serialize)] on Book: the fields in declaration order
SerializeBook(book) ==
    JObj(<< Member("id", JStr(book.id)),
            Member("title", JStr(book.title)),
            Member("author", JStr(book.author)),
            Member("copies_total", JNum(book.copies_total)),
            Member("copies_available", JNum(book.copies_available)) >>)

\* #[derive(Serialize)] on Library
SerializeLibrary(library) ==
    JObj(<< Member("books",
                   JArr([i \in 1..Len(library.books) |->
                            SerializeBook(library.books[i])])) >>)

\* serde_json::to_string_pretty(library): the text of a JSON document
to_string_pretty(library) == [valid |-> TRUE, root |-> SerializeLibrary(library)]

\* the value serde hands to the visitor of field `name` of a struct whose
\* fields are `names`: by key for a JSON object (exactly one member of that
\* key: a missing or a duplicated field is an error), by position for a JSON
\* array of exactly Len(names) elements
FieldOf(v, names, name) ==
    LET pos == CHOOSE i \in 1..Len(names) : names[i] = name
        occ == {i \in 1..Len(v.items) : v.items[i].k = name}
    IN IF v.t = "obj"
       THEN IF Cardinality(occ) = 1
            THEN [ok |-> TRUE, v |-> v.items[CHOOSE i \in occ : TRUE].v]
            ELSE [ok |-> FALSE, v |-> JNull]
       ELSE IF v.t = "arr" /\ Len(v.items) = Len(names)
            THEN [ok |-> TRUE, v |-> v.items[pos].v]
            ELSE [ok |-> FALSE, v |-> JNull]

IsString(f) == f.ok /\ f.v.t = "str"
\* IsU32 for a signed field: any number is accepted
IsU32_signed(f) == f.ok /\ f.v.t = "num"

\* u32: a negative number is rejected (so is one above 2^32 - 1, which no
\* number of this model reaches)
IsU32(f) == f.ok /\ f.v.t = "num" /\ f.v.n >= 0

BookFields == <<"id", "title", "author", "copies_total", "copies_available">>

\* #[derive(Deserialize)] on Book
DeserializeBook(v) ==
    LET id == FieldOf(v, BookFields, "id")
        title == FieldOf(v, BookFields, "title")
        author == FieldOf(v, BookFields, "author")
        total == FieldOf(v, BookFields, "copies_total")
        available == FieldOf(v, BookFields, "copies_available")
    IN IF IsString(id) /\ IsString(title) /\ IsString(author)
          /\ IsU32(total) /\ IsU32(available)
       THEN [ok |-> TRUE,
             book |-> Book(id.v.s, title.v.s, author.v.s, total.v.n, available.v.n)]
       ELSE [ok |-> FALSE, book |-> Book(<<>>, <<>>, <<>>, 0, 0)]

\* #[derive(Deserialize)] on Library
DeserializeLibrary(v) ==
    LET books == FieldOf(v, <<"books">>, "books")
    IN IF books.ok /\ books.v.t = "arr"
          /\ \A i \in 1..Len(books.v.items) : DeserializeBook(books.v.items[i].v).ok
       THEN [ok |-> TRUE,
             lib |-> Library([i \in 1..Len(books.v.items) |->
                                 DeserializeBook(books.v.items[i].v).book])]
       ELSE [ok |-> FALSE, lib |-> Library(<<>>)]

\* serde_json::from_str::<Library>(content)
from_str(content) ==
    IF content.valid THEN DeserializeLibrary(content.root)
    ELSE [ok |-> FALSE, lib |-> Library(<<>>)]

\* ------------------------------------------------------------ the storage
\* library_data.json: missing, present but unreadable (read_to_string fails,
\* e.g. its bytes are not UTF-8), or present with a text
NoText == [valid |-> FALSE, root |-> JNull]
MissingFile == [kind |-> "missing", content |-> NoText]
UnreadableFile == [kind |-> "unreadable", content |-> NoText]
TextFile(content) == [kind |-> "text", content |-> content]
\* what a write that failed after File::create truncated the file leaves
TruncatedFile == TextFile(NoText)

\* outcomes of fs::write: done, the open failed (file untouched), or the
\* write failed after the file was created/truncated
WriteOutcomes == {"ok", "open_failed", "write_failed"}

\* the storage after save_data(library) with outcome w
save_data(library, old, w) ==
    CASE w = "ok" -> TextFile(to_string_pretty(library))
      [] w = "open_failed" -> old
      [] OTHER -> TruncatedFile

\* ------------------------------------------------------- string functions
Whitespace == {" ", "\t", "\n", "\r"}
Digits == <<"0", "1", "2", "3", "4", "5", "6", "7", "8", "9">>
UpperCase == <<"A", "B", "C", "D", "E", "F", "G", "H", "I", "J", "K", "L", "M",
               "N", "O", "P", "Q", "R", "S", "T", "U", "V", "W", "X", "Y", "Z">>
LowerCase == <<"a", "b", "c", "d", "e", "f", "g", "h", "i", "j", "k", "l", "m",
               "n", "o", "p", "q", "r", "s", "t", "u", "v", "w", "x", "y", "z">>

\* char::to_digit(10)
DigitValues ==
    [c \in {Digits[d] : d \in 1..Len(Digits)} |->
        (CHOOSE d \in 1..Len(Digits) : Digits[d] = c) - 1]
IsDigit(c) == c \in DOMAIN DigitValues
DigitValue(c) == DigitValues[c]

\* the lowercase of each uppercase ASCII letter
LowerOf ==
    [c \in {UpperCase[u] : u \in 1..Len(UpperCase)} |->
        LowerCase[CHOOSE u \in 1..Len(UpperCase) : UpperCase[u] = c]]
LowerChar(c) == IF c \in DOMAIN LowerOf THEN LowerOf[c] ELSE c

\* str::to_lowercase (and the folding of eq_ignore_ascii_case) on ASCII text
to_lowercase(s) == [i \in 1..Len(s) |-> LowerChar(s[i])]

RECURSIVE trim_start(_)
trim_start(s) ==
    IF s # <<>> /\ Head(s) \in Whitespace THEN trim_start(Tail(s)) ELSE s

RECURSIVE trim_end(_)
trim_end(s) ==
    IF s # <<>> /\ s[Len(s)] \in Whitespace
    THEN trim_end(SubSeq(s, 1, Len(s) - 1)) ELSE s

\* str::trim
trim(s) == trim_end(trim_start(s))

RECURSIVE DecimalValue(_)
DecimalValue(s) ==
    IF s = <<>> THEN 0
    ELSE 10 * DecimalValue(SubSeq(s, 1, Len(s) - 1)) + DigitValue(s[Len(s)])

\* usize::MAX of a 64-bit build, in decimal
sUsizeMax == <<"1", "8", "4", "4", "6", "7", "4", "4", "0", "7", "3", "7", "0",
               "9", "5", "5", "1", "6", "1", "5">>

\* a digit string without its leading zeros (one digit is always kept)
RECURSIVE StripZeros(_)
StripZeros(s) ==
    IF Len(s) > 1 /\ Head(s) = "0" THEN StripZeros(Tail(s)) ELSE s

\* of two digit strings of the same length, a denotes the larger number
RECURSIVE DigitsGreater(_, _)
DigitsGreater(a, b) ==
    IF a = <<>> THEN FALSE
    ELSE IF Head(a) # Head(b) THEN DigitValue(Head(a)) > DigitValue(Head(b))
    ELSE DigitsGreater(Tail(a), Tail(b))

\* the number a digit string denotes does not fit in usize
Overflows(digits) ==
    LET s == StripZeros(digits)
    IN \/ Len(s) > Len(sUsizeMax)
       \/ Len(s) = Len(sUsizeMax) /\ DigitsGreater(s, sUsizeMax)

\* str::parse::<usize>: an optional "+" and at least one decimal digit, an
\* error when the value does not fit in usize.  The value is only compared
\* with the length of a Vec and used as an index into it, so a value of ten
\* digits or more is given as 10^9, beyond every Vec of the model.
parse_usize(s) ==
    LET digits == IF s # <<>> /\ Head(s) = "+" THEN Tail(s) ELSE s
        value == StripZeros(digits)
    IN IF /\ digits # <<>>
          /\ \A i \in 1..Len(digits) : IsDigit(digits[i])
          /\ ~Overflows(digits)
       THEN [ok |-> TRUE,
             num |-> IF Len(value) > 9 THEN 1000000000 ELSE DecimalValue(value)]
       ELSE [ok |-> FALSE, num |-> 0]

\* ------------------------------------------------------------ line input
\* one read of standard input: read_line fails, or yields a line (the empty
\* line at end of input)
ReadError == [ok |-> FALSE, line |-> <<>>]
ReadLine(line) == [ok |-> TRUE, line |-> line]

\* read_choice: None on a read error, else Some(trimmed line)
read_choice(rd) ==
    IF ~rd.ok THEN [some |-> FALSE, text |-> <<>>]
    ELSE [some |-> TRUE, text |-> trim(rd.line)]

\* --------------------------------------------------- inventory operations
\* borrowed_count that wraps around instead of saturating at 0: a positive
\* number whenever copies_available exceeds copies_total
borrowed_count_wrapping(book) ==
    IF book.copies_total >= book.copies_available
    THEN book.copies_total - book.copies_available
    ELSE book.copies_available - book.copies_total

borrowed_count(book) ==
    IF book.copies_total >= book.copies_available
    THEN book.copies_total - book.copies_available
    ELSE 0

\* the borrow filter that lets every book through
IsAvailable_any(book) == book.copies_available >= 0

IsAvailable(book) == book.copies_available > 0
IsBorrowed(book) == borrowed_count(book) > 0

\* iter().enumerate().filter(..).map(|(idx, _)| idx).collect() over the first
\* n books: the indices whose flag is set, in increasing order
RECURSIVE FilterIndices(_, _)
FilterIndices(keep, n) ==
    IF n = 0 THEN <<>>
    ELSE IF keep[n]
         THEN Append(FilterIndices(keep, n - 1), n)
         ELSE FilterIndices(keep, n - 1)

\* the candidate sets filtered with >= 0 instead of > 0
available_indices_all(library) ==
    FilterIndices([i \in 1..Len(library.books) |->
                      library.books[i].copies_available >= 0],
                  Len(library.books))
borrowed_indices_all(library) ==
    FilterIndices([i \in 1..Len(library.books) |->
                      borrowed_count(library.books[i]) >= 0],
                  Len(library.books))

\* the candidate sets of view_available/borrow_book and view_borrowed/return_book
available_indices(library) ==
    FilterIndices([i \in 1..Len(library.books) |-> IsAvailable(library.books[i])],
                  Len(library.books))
borrowed_indices(library) ==
    FilterIndices([i \in 1..Len(library.books) |-> IsBorrowed(library.books[i])],
                  Len(library.books))

\* the last candidate whose lowercased id equals `lowered`, 0 if none
RECURSIVE FirstById_last(_, _, _, _)
FirstById_last(library, indices, lowered, from) ==
    IF from > Len(indices) THEN 0
    ELSE IF FirstById_last(library, indices, lowered, from + 1) # 0
         THEN FirstById_last(library, indices, lowered, from + 1)
         ELSE IF to_lowercase(library.books[indices[from]].id) = lowered
              THEN indices[from]
              ELSE 0

\* the first candidate whose lowercased id equals `lowered`, 0 if none
RECURSIVE FirstById(_, _, _, _)
FirstById(library, indices, lowered, from) ==
    IF from > Len(indices) THEN 0
    ELSE IF to_lowercase(library.books[indices[from]].id) = lowered
         THEN indices[from]
         ELSE FirstById(library, indices, lowered, from + 1)

\* select_book_index: Some(index) or None, with the reason for None
Selected(idx) == [some |-> TRUE, idx |-> idx, why |-> "Selected"]
NotSelected(why) == [some |-> FALSE, idx |-> 0, why |-> why]

\* select_book_index that matches ids before it looks for a cancellation
select_book_index_ids_first(library, indices, rd) ==
    LET choice == read_choice(rd)
        input == choice.text
        parsed == parse_usize(input)
        byId == FirstById(library, indices, to_lowercase(input), 1)
    IN IF ~choice.some THEN NotSelected("ReadFailed")
       ELSE IF byId # 0 THEN Selected(byId)
       ELSE IF input = <<>> \/ to_lowercase(input) = <<"q">>
            THEN NotSelected("Cancelled")
       ELSE IF parsed.ok
            THEN IF parsed.num >= 1 /\ parsed.num <= Len(indices)
                 THEN Selected(indices[parsed.num])
                 ELSE NotSelected("InvalidSelection")
       ELSE NotSelected("NotFound")

select_book_index(library, indices, rd) ==
    LET choice == read_choice(rd)
        input == choice.text
        parsed == parse_usize(input)
        byId == FirstById(library, indices, to_lowercase(input), 1)
    IN IF ~choice.some THEN NotSelected("ReadFailed")
       ELSE IF input = <<>> \/ to_lowercase(input) = <<"q">>
            THEN NotSelected("Cancelled")
       ELSE IF parsed.ok
            THEN IF parsed.num >= 1 /\ parsed.num <= Len(indices)
                 THEN Selected(indices[parsed.num])
                 ELSE NotSelected("InvalidSelection")
       ELSE IF byId # 0 THEN Selected(byId)
       ELSE NotSelected("NotFound")

\* --------------------------------------------------------- catalog store
\* load_data that overwrites a file it could not read, as it does with one
\* it could not parse
load_data_resets_unreadable(old, w) ==
    IF old.kind = "missing"
    THEN [library |-> default_library, file |-> save_data(default_library, old, w),
          path |-> "Seeded", saved |-> w]
    ELSE IF old.kind = "unreadable"
    THEN [library |-> default_library, file |-> save_data(default_library, old, w),
          path |-> "Unreadable", saved |-> w]
    ELSE IF from_str(old.content).ok
    THEN [library |-> from_str(old.content).lib, file |-> old,
          path |-> "Parsed", saved |-> "none"]
    ELSE [library |-> default_library, file |-> save_data(default_library, old, w),
          path |-> "Corrupted", saved |-> w]

\* load_data that does not write the default catalog when the file is missing
load_data_unseeded(old, w) ==
    IF old.kind = "missing" \/ old.kind = "unreadable"
    THEN [library |-> default_library, file |-> old,
          path |-> IF old.kind = "missing" THEN "Seeded" ELSE "Unreadable",
          saved |-> "none"]
    ELSE IF from_str(old.content).ok
    THEN [library |-> from_str(old.content).lib, file |-> old,
          path |-> "Parsed", saved |-> "none"]
    ELSE [library |-> default_library, file |-> save_data(default_library, old, w),
          path |-> "Corrupted", saved |-> w]

\* load_data that returns whatever the parser left when the file is corrupted
load_data_unchecked(old, w) ==
    IF old.kind = "missing"
    THEN [library |-> default_library, file |-> save_data(default_library, old, w),
          path |-> "Seeded", saved |-> w]
    ELSE IF old.kind = "unreadable"
    THEN [library |-> default_library, file |-> old,
          path |-> "Unreadable", saved |-> "none"]
    ELSE [library |-> from_str(old.content).lib, file |-> old,
          path |-> IF from_str(old.content).ok THEN "Parsed" ELSE "Corrupted",
          saved |-> "none"]

\* load_data with the storage `old` and outcome w of the write it may attempt:
\* the catalog it returns, the storage it leaves, the branch it took and the
\* outcome of its save attempt ("none" when it made none)
load_data(old, w) ==
    IF old.kind = "missing"
    THEN [library |-> default_library, file |-> save_data(default_library, old, w),
          path |-> "Seeded", saved |-> w]
    ELSE IF old.kind = "unreadable"
    THEN [library |-> default_library, file |-> old,
          path |-> "Unreadable", saved |-> "none"]
    ELSE IF from_str(old.content).ok
    THEN [library |-> from_str(old.content).lib, file |-> old,
          path |-> "Parsed", saved |-> "none"]
    ELSE [library |-> default_library, file |-> save_data(default_library, old, w),
          path |-> "Corrupted", saved |-> w]

\* ------------------------------------------------------ borrow and return
\* what one call leaves: the catalog, the storage, how it ended, the index
\* it selected (0: none), copies_available of that book before the call and
\* the outcome of its save attempt ("none" when it made none)
Ended(library, old, outcome, sel, saved) ==
    [library |-> library, file |-> old, outcome |-> outcome, sel |-> sel,
     before |-> IF sel = 0 THEN 0 ELSE library.books[sel].copies_available,
     saved |-> saved]

\* borrow_book that saves the catalog as it was before the decrement
borrow_book_stale(library, old, rd, w) ==
    LET indices == available_indices(library)
        pick == select_book_index(library, indices, rd)
        after == Library([library.books EXCEPT
                            ![pick.idx].copies_available = @ - 1])
    IN IF indices = <<>>
       THEN Ended(library, old, "NoneAvailable", 0, "none")
       ELSE IF ~pick.some
       THEN Ended(library, old, pick.why, 0, "none")
       ELSE IF library.books[pick.idx].copies_available = 0
       THEN Ended(library, old, "NoCopiesAvailable", pick.idx, "none")
       ELSE [Ended(library, old, "Borrowed", pick.idx, w)
                EXCEPT !.library = after, !.file = save_data(library, old, w)]

\* borrow_book that hands out every copy of the selected book at once
borrow_book_all_copies(library, old, rd, w) ==
    LET indices == available_indices(library)
        pick == select_book_index(library, indices, rd)
        after == Library([library.books EXCEPT ![pick.idx].copies_available = 0])
    IN IF indices = <<>>
       THEN Ended(library, old, "NoneAvailable", 0, "none")
       ELSE IF ~pick.some
       THEN Ended(library, old, pick.why, 0, "none")
       ELSE IF library.books[pick.idx].copies_available = 0
       THEN Ended(library, old, "NoCopiesAvailable", pick.idx, "none")
       ELSE [Ended(library, old, "Borrowed", pick.idx, w)
                EXCEPT !.library = after, !.file = save_data(after, old, w)]

borrow_book(library, old, rd, w) ==
    LET indices == available_indices(library)
        pick == select_book_index(library, indices, rd)
        after == Library([library.books EXCEPT
                            ![pick.idx].copies_available = @ - 1])
    IN IF indices = <<>>
       THEN Ended(library, old, "NoneAvailable", 0, "none")
       ELSE IF ~pick.some
       THEN Ended(library, old, pick.why, 0, "none")
       ELSE IF library.books[pick.idx].copies_available = 0
       THEN Ended(library, old, "NoCopiesAvailable", pick.idx, "none")
       ELSE [Ended(library, old, "Borrowed", pick.idx, w)
                EXCEPT !.library = after, !.file = save_data(after, old, w)]

\* return_book that offers every book and takes back a copy of any of them
return_book_unbounded(library, old, rd, w) ==
    LET indices == FilterIndices([i \in 1..Len(library.books) |-> TRUE],
                                 Len(library.books))
        pick == select_book_index(library, indices, rd)
        after == Library([library.books EXCEPT
                            ![pick.idx].copies_available = @ + 1])
    IN IF indices = <<>>
       THEN Ended(library, old, "NoneBorrowed", 0, "none")
       ELSE IF ~pick.some
       THEN Ended(library, old, pick.why, 0, "none")
       ELSE [Ended(library, old, "Returned", pick.idx, w)
                EXCEPT !.library = after, !.file = save_data(after, old, w)]

\* return_book that saves the catalog also when it returned nothing
return_book_always_saves(library, old, rd, w) ==
    LET indices == borrowed_indices(library)
        pick == select_book_index(library, indices, rd)
        after == Library([library.books EXCEPT
                            ![pick.idx].copies_available = @ + 1])
    IN IF indices = <<>>
       THEN [Ended(library, old, "NoneBorrowed", 0, w)
                EXCEPT !.file = save_data(library, old, w)]
       ELSE IF ~pick.some
       THEN [Ended(library, old, pick.why, 0, w)
                EXCEPT !.file = save_data(library, old, w)]
       ELSE IF library.books[pick.idx].copies_available
                 >= library.books[pick.idx].copies_total
       THEN Ended(library, old, "AllCopiesPresent", pick.idx, "none")
       ELSE [Ended(library, old, "Returned", pick.idx, w)
                EXCEPT !.library = after, !.file = save_data(after, old, w)]

return_book(library, old, rd, w) ==
    LET indices == borrowed_indices(library)
        pick == select_book_index(library, indices, rd)
        after == Library([library.books EXCEPT
                            ![pick.idx].copies_available = @ + 1])
    IN IF indices = <<>>
       THEN Ended(library, old, "NoneBorrowed", 0, "none")
       ELSE IF ~pick.some
       THEN Ended(library, old, pick.why, 0, "none")
       ELSE IF library.books[pick.idx].copies_available
                 >= library.books[pick.idx].copies_total
       THEN Ended(library, old, "AllCopiesPresent", pick.idx, "none")
       ELSE [Ended(library, old, "Returned", pick.idx, w)
                EXCEPT !.library = after, !.file = save_data(after, old, w)]

\* menu(): the option read at the prompt
menu(rd) == read_choice(rd)

\* ----------------------------------------------------------------- inputs
Line(text) == ReadLine(text \o <<"\n">>)

\* what the user may type at the menu prompt (<<>> is the end of input)
MenuReads ==
    {ReadError, ReadLine(<<>>), Line(<<>>), Line(<<"1">>), Line(<<"2">>),
     Line(<<" ", "3">>), Line(<<"4", " ">>), Line(<<"5">>), Line(<<"9">>),
     Line(<<"x">>)}

\* usize::MAX + 1 in decimal
sTooBig == [sUsizeMax EXCEPT ![Len(sUsizeMax)] = "6"]

\* what the user may type at the selection prompt
SelectionReads ==
    {ReadError, ReadLine(<<>>), Line(<<"q">>), Line(<<"0">>), Line(<<"1">>),
     Line(<<" ", "2", " ">>), Line(sB001), Line(<<"b", "0", "0", "3">>),
     Line(sB004), Line(<<"z", "z">>), Line(<<"Q">>), Line(<<"+", "1">>),
     Line(sTooBig)}

\* the books a storage file written before the session may hold: the first
\* default title and a book whose id is a number, each with MaxCopies copies
\* of which any number up to one more than that is recorded as available
FileHeads == {Book(sB001, s1984, sOrwell, 0, 0), Book(<<"2">>, sPride, sAusten, 0, 0)}
FileBooks ==
    {Book(h.id, h.title, h.author, MaxCopies, a) :
        h \in FileHeads, a \in 0..(MaxCopies + 1)}
FileCatalogs == UNION {[1..n -> FileBooks] : n \in 0..MaxBooks}

\* books with an id in mixed case, and with ids that read as something else
\* at the selection prompt: the cancellation letter, a number too large for
\* usize; each with MaxCopies copies, all of them out or all of them present,
\* and no id twice in a catalog
OddHeads ==
    {Book(<<"Z", "z">>, sPride, sAusten, 0, 0), Book(<<"q">>, s1984, sOrwell, 0, 0),
     Book(sTooBig, sGatsby, sFitzgerald, 0, 0)}
OddBooks ==
    {Book(h.id, h.title, h.author, MaxCopies, a) :
        h \in OddHeads, a \in {0, MaxCopies}}
OddCatalogs ==
    {c \in UNION {[1..n -> OddBooks] : n \in 0..MaxBooks} :
        \A i, j \in 1..Len(c) : c[i].id = c[j].id => i = j}
OddFiles == {TextFile(to_string_pretty(Library(c))) : c \in OddCatalogs}

\* texts that are not a catalog: not JSON, no `books`, `books` twice,
\* `books` not a list, a book without copies_available, with a string for
\* copies_total, with a negative count
MalformedTexts ==
    LET book == SerializeBook(default_library.books[1])
        text(v) == [valid |-> TRUE, root |-> v]
        books(b) == JObj(<<Member("books", JArr(<<b>>))>>)
    IN {NoText,
        text(JObj(<<>>)),
        text(JObj(<<Member("books", JArr(<<>>)), Member("books", JArr(<<>>))>>)),
        text(JObj(<<Member("books", JNum(3))>>)),
        text(books(JObj(SubSeq(book.items, 1, 4)))),
        text(books([book EXCEPT !.items[4].v = JStr(<<"3">>)])),
        text(books([book EXCEPT !.items[5].v = JNum(-1)]))}

\* texts that are a catalog but were not written by save_data: members in
\* another order with an unknown member, a book given as a JSON array, and
\* a book of which the library owns no copy
ForeignTexts ==
    LET book == SerializeBook(default_library.books[2])
        text(v) == [valid |-> TRUE, root |-> v]
        books(b) == JObj(<<Member("books", JArr(<<b>>))>>)
    IN {text(books(JObj(<<book.items[5], book.items[4], Member("year", JNum(1813)),
                          book.items[3], book.items[2], book.items[1]>>))),
        text(books(JArr(<<JStr(sB002), JStr(sPride), JStr(sAusten),
                          JNum(2), JNum(1)>>))),
        text(books([book EXCEPT !.items[4].v = JNum(0), !.items[5].v = JNum(0)]))}

InitialFiles ==
    {MissingFile, UnreadableFile}
    \cup {TextFile(to_string_pretty(Library(c))) : c \in FileCatalogs}
    \cup {TextFile(t) : t \in MalformedTexts \cup ForeignTexts}

\* ------------------------------------------------------------- the session
VARIABLES
    pc,        \* "start": main not yet past load_data; "menu"; "exited"
    library,   \* main's `library`
    file,      \* library_data.json
    path,      \* the branch load_data took in the step just taken, else "none"
    failures   \* the writes of the storage file that have failed so far

vars == <<pc, library, file, path, failures>>

\* the outcomes a write may have now
Writes == IF failures < MaxWriteFailures THEN WriteOutcomes ELSE {"ok"}

Failed(s) == s \in WriteOutcomes \ {"ok"}

\* an arm of main's match that calls nothing that writes
NoCall ==
    /\ path' = "none"
    /\ UNCHANGED <<library, file, failures>>

\* a borrow_book or return_book call that ended as r
Call(r) ==
    /\ library' = r.library
    /\ file' = r.file
    /\ path' = "none"
    /\ failures' = IF Failed(r.saved) THEN failures + 1 ELSE failures

Init ==
    /\ pc = "start"
    /\ library = Library(<<>>)
    /\ file \in InitialFiles
    /\ path = "none"
    /\ failures = 0

\* main: let mut library = load_data(); with outcome w of the write
Load(w) ==
    /\ pc = "start"
    /\ LET r == load_data(file, w)
       IN /\ library' = r.library
          /\ file' = r.file
          /\ path' = r.path
          /\ failures' = IF Failed(r.saved) THEN failures + 1 ELSE failures
    /\ pc' = "menu"

Startup == \E w \in Writes : Load(w)

\* the arms of main's match on menu(); the "Press Enter to continue" read
\* that follows an arm discards what it reads
MenuOptions == {menu(rd) : rd \in MenuReads}
Chosen(option) == [some |-> TRUE, text |-> option] \in MenuOptions

\* Some("1") => view_available(&library)
ViewAvailable ==
    /\ pc = "menu"
    /\ Chosen(<<"1">>)
    /\ NoCall
    /\ UNCHANGED pc

\* Some("2") => view_borrowed(&library)
ViewBorrowed ==
    /\ pc = "menu"
    /\ Chosen(<<"2">>)
    /\ NoCall
    /\ UNCHANGED pc

\* Some("3") => borrow_book(&mut library)
Borrow ==
    /\ pc = "menu"
    /\ Chosen(<<"3">>)
    /\ \E rd \in SelectionReads, w \in Writes :
         Call(borrow_book(library, file, rd, w))
    /\ UNCHANGED pc

\* Some("4") => return_book(&mut library)
Return ==
    /\ pc = "menu"
    /\ Chosen(<<"4">>)
    /\ \E rd \in SelectionReads, w \in Writes :
         Call(return_book(library, file, rd, w))
    /\ UNCHANGED pc

\* Some("5") => break
Exit ==
    /\ pc = "menu"
    /\ Chosen(<<"5">>)
    /\ NoCall
    /\ pc' = "exited"

\* Some(_) => "Please choose a valid option (1-5)."
InvalidChoice ==
    /\ pc = "menu"
    /\ \E o \in MenuOptions :
         /\ o.some
         /\ o.text \notin {<<"1">>, <<"2">>, <<"3">>, <<"4">>, <<"5">>}
    /\ NoCall
    /\ UNCHANGED pc

\* None => "Input error. Exiting."; break
InputError ==
    /\ pc = "menu"
    /\ \E o \in MenuOptions : ~o.some
    /\ NoCall
    /\ pc' = "exited"

\* the program is started again on the storage the last session left
Relaunch ==
    /\ pc = "exited"
    /\ pc' = "start"
    /\ library' = Library(<<>>)
    /\ path' = "none"
    /\ UNCHANGED <<file, failures>>

Next ==
    \/ Startup
    \/ ViewAvailable
    \/ ViewBorrowed
    \/ Borrow
    \/ Return
    \/ Exit
    \/ InvalidChoice
    \/ InputError
    \/ Relaunch

Spec == Init /\ [][Next]_vars

\* the sessions on storage files whose ids read as something else
InitOdd ==
    /\ pc = "start"
    /\ library = Library(<<>>)
    /\ file \in OddFiles
    /\ path = "none"
    /\ failures = 0

SpecOdd == InitOdd /\ [][Next]_vars

\* the sessions whose standard input is at its end from the start (every
\* read_line yields no data), with the "Press Enter to continue" read of
\* main's loop as a step of its own (pc = "pause")
EndOfInput == ReadLine(<<>>)

\* the arm of main's match taken on what menu() reads at the end of input:
\* Some(_) => "Please choose a valid option (1-5)."
MenuAtEnd ==
    /\ pc = "menu"
    /\ menu(EndOfInput).some
    /\ menu(EndOfInput).text \notin {<<"1">>, <<"2">>, <<"3">>, <<"4">>, <<"5">>}
    /\ NoCall
    /\ pc' = "pause"

\* let _ = read_choice("\nPress Enter to continue..."); what it reads is
\* discarded and the loop goes on
PauseAtEnd ==
    /\ pc = "pause"
    /\ NoCall
    /\ pc' = "menu"

NextAtEnd ==
    \/ Startup
    \/ MenuAtEnd
    \/ PauseAtEnd

\* the process keeps running: it takes its next step whenever it has one
SpecAtEnd == Init /\ [][NextAtEnd]_vars /\ WF_vars(NextAtEnd)

\* ------------------------------------------------------------ properties
Books == library.books
InSession == pc # "start"

\* every book's counts are within bounds
CopiesInBounds ==
    \A i \in 1..Len(Books) :
        /\ 0 <= Books[i].copies_available
        /\ Books[i].copies_available <= Books[i].copies_total

\* C1: in every state of a session (from the catalog load_data returned on)
\* every book has 0 <= copies_available <= copies_total
C1_CopiesWithinTotal == InSession => CopiesInBounds

\* the token of read rd is the id of book b, letter case ignored
NamesBook(rd, b) ==
    /\ read_choice(rd).some
    /\ to_lowercase(read_choice(rd).text) = to_lowercase(b.id)

\* the token of read rd is text that select_book_index matches against ids:
\* not empty, not "q", not a number
IsIdToken(rd) ==
    /\ read_choice(rd).some
    /\ read_choice(rd).text # <<>>
    /\ to_lowercase(read_choice(rd).text) # <<"q">>
    /\ ~parse_usize(read_choice(rd).text).ok

\* C2 as stated: a borrow request that names a book with no copy available
\* ends in NoCopiesAvailable and leaves the catalog unchanged
C2_DepletedEndsNoCopiesAvailable ==
    pc = "menu" =>
        \A rd \in SelectionReads, i \in 1..Len(Books) :
            (NamesBook(rd, Books[i]) /\ Books[i].copies_available = 0)
            => \A w \in WriteOutcomes :
                 /\ borrow_book(library, file, rd, w).outcome = "NoCopiesAvailable"
                 /\ borrow_book(library, file, rd, w).library = library

\* C2 amended: a borrow request whose token is the id of a book with no copy
\* available, and of no book that has one, is refused as not found (as "no
\* books available" when the whole catalog is depleted), never as
\* NoCopiesAvailable, and leaves the catalog and the storage unchanged
C2_DepletedIsNotFound ==
    pc = "menu" =>
        \A rd \in SelectionReads :
            ( /\ IsIdToken(rd)
              /\ \E i \in 1..Len(Books) : NamesBook(rd, Books[i])
              /\ \A i \in 1..Len(Books) :
                    NamesBook(rd, Books[i]) => Books[i].copies_available = 0 )
            => \A w \in WriteOutcomes :
               LET r == borrow_book(library, file, rd, w)
               IN /\ r.outcome = IF \A i \in 1..Len(Books) :
                                       Books[i].copies_available = 0
                                  THEN "NoneAvailable" ELSE "NotFound"
                  /\ r.library = library
                  /\ r.file = file
                  /\ r.saved = "none"

\* the first default book (3 copies) has been borrowed three times, another
\* book still has copies, and a borrow request for B001 is refused as not
\* found
C2_Witness ==
    /\ pc = "menu"
    /\ Len(Books) = 4
    /\ Books[1].id = sB001
    /\ Books[1].copies_total = 3
    /\ Books[1].copies_available = 0
    /\ Books[2].copies_available > 0
    /\ borrow_book(library, file, Line(sB001), "ok").outcome = "NotFound"

\* C3 as stated: a return request that names a book whose copies are all
\* present ends in AllCopiesPresent and leaves the catalog unchanged
C3_AllPresentEndsAllCopiesPresent ==
    pc = "menu" =>
        \A rd \in SelectionReads, i \in 1..Len(Books) :
            (NamesBook(rd, Books[i])
                /\ Books[i].copies_available = Books[i].copies_total)
            => \A w \in WriteOutcomes :
                 /\ return_book(library, file, rd, w).outcome = "AllCopiesPresent"
                 /\ return_book(library, file, rd, w).library = library

\* C3 amended: a return request whose token is the id of a book whose copies
\* are all present, and of no book that has a copy out, is refused as not
\* found (as "no borrowed books" when nothing is out), never as
\* AllCopiesPresent, and leaves the catalog and the storage unchanged
C3_AllPresentIsNotFound ==
    pc = "menu" =>
        \A rd \in SelectionReads :
            ( /\ IsIdToken(rd)
              /\ \E i \in 1..Len(Books) : NamesBook(rd, Books[i])
              /\ \A i \in 1..Len(Books) :
                    NamesBook(rd, Books[i])
                    => Books[i].copies_available = Books[i].copies_total )
            => \A w \in WriteOutcomes :
               LET r == return_book(library, file, rd, w)
               IN /\ r.outcome = IF \A i \in 1..Len(Books) :
                                       borrowed_count(Books[i]) = 0
                                  THEN "NoneBorrowed" ELSE "NotFound"
                  /\ r.library = library
                  /\ r.file = file
                  /\ r.saved = "none"

\* the first default book has all its copies, the third has been borrowed,
\* and a return request for B001 is refused as not found
C3_Witness ==
    /\ pc = "menu"
    /\ Len(Books) = 4
    /\ Books[1].id = sB001
    /\ Books[1].copies_available = Books[1].copies_total
    /\ Books[3].copies_available < Books[3].copies_total
    /\ return_book(library, file, Line(sB001), "ok").outcome = "NotFound"

\* the book at index i is offered for return
Returnable(lib, i) ==
    \E k \in 1..Len(borrowed_indices(lib)) : borrowed_indices(lib)[k] = i

\* C4: right after a successful borrow, a return of the same book is accepted
\* (the book is offered for return, and every return request that resolves
\* to it is accepted) and restores its copies_available
C4_BorrowThenReturnRestores ==
    pc = "menu" =>
        \A rd \in SelectionReads, w \in WriteOutcomes :
            LET b == borrow_book(library, file, rd, w)
            IN b.outcome = "Borrowed" =>
                 /\ Returnable(b.library, b.sel)
                 /\ \A rd2 \in SelectionReads, w2 \in WriteOutcomes :
                       LET r == return_book(b.library, b.file, rd2, w2)
                       IN r.sel = b.sel =>
                            /\ r.outcome = "Returned"
                            /\ r.library.books[b.sel].copies_available
                                   = Books[b.sel].copies_available

\* the storage holds exactly the catalog lib: load_data would parse lib from it
Holds(f, lib) ==
    /\ f.kind = "text"
    /\ from_str(f.content) = [ok |-> TRUE, lib |-> lib]

\* the call that ended as r changed the catalog
Mutated(r) == r.outcome \in {"Borrowed", "Returned"}

\* C5: every borrow_book or return_book call that changes the catalog makes
\* its save attempt before it returns to the menu, and when that save
\* succeeds the storage holds the catalog the call left in memory
C5_MutationIsSaved ==
    pc = "menu" =>
        \A rd \in SelectionReads, w \in WriteOutcomes :
            \A r \in {borrow_book(library, file, rd, w),
                      return_book(library, file, rd, w)} :
                Mutated(r) =>
                    /\ r.library # library
                    /\ r.saved = w
                    /\ w = "ok" => Holds(r.file, r.library)

\* the first borrow of B001 from the default catalog was saved: the storage
\* records copies_available = 2 (no storage file starts with that content)
C5_Witness ==
    /\ pc = "menu"
    /\ failures = 0
    /\ Len(Books) = 4
    /\ Books[1].id = sB001
    /\ Books[1].copies_available = 2
    /\ \A i \in 2..4 : Books[i].copies_available = Books[i].copies_total
    /\ Holds(file, library)
    /\ from_str(file.content).lib.books[1].copies_available = 2

\* C6: when the save of a successful borrow or return fails, the mutation
\* stays in memory and the storage keeps its previous content; a save that
\* succeeds writes the whole current catalog
C6_FailedSaveKeepsStorage ==
    pc = "menu" =>
        \A rd \in SelectionReads, w \in WriteOutcomes :
            \A r \in {borrow_book(library, file, rd, w),
                      return_book(library, file, rd, w)} :
                Mutated(r) =>
                    /\ r.library # library
                    /\ Failed(w) => r.file = file
                    /\ w = "ok" => Holds(r.file, r.library)

\* the built-in catalog: B001 3/3, B002 2/2, B003 4/4, B004 2/2
IsDefaultCatalog(lib) ==
    lib.books = << Book(sB001, s1984, sOrwell, 3, 3),
                   Book(sB002, sPride, sAusten, 2, 2),
                   Book(sB003, sMockingbird, sLee, 4, 4),
                   Book(sB004, sGatsby, sFitzgerald, 2, 2) >>

\* load_data run on storage f with write outcome w returns the default
\* catalog after an attempt to write it, which leaves it stored if it succeeds
ResetsToDefault(f, w) ==
    LET r == load_data(f, w)
    IN /\ IsDefaultCatalog(r.library)
       /\ r.saved = w
       /\ w = "ok" => Holds(r.file, r.library)

\* C7: when the storage file does not exist, load_data returns the default
\* catalog and attempts to write it; if the write succeeds the storage holds
\* the default catalog, and the default catalog is returned also if it fails
C7_MissingFileSeedsDefault ==
    /\ (pc = "start" /\ file.kind = "missing")
       => \A w \in WriteOutcomes :
            ResetsToDefault(file, w) /\ load_data(file, w).path = "Seeded"
    /\ path = "Seeded"
       => /\ pc = "menu"
          /\ IsDefaultCatalog(library)
          /\ Holds(file, library) \/ file \in {MissingFile, TruncatedFile}

\* a session has started on a missing file and the default catalog is stored
C7_Witness ==
    /\ path = "Seeded"
    /\ pc = "menu"
    /\ IsDefaultCatalog(library)
    /\ Holds(file, library)

\* C8: when the storage file is readable but is not a catalog, load_data
\* returns the default catalog and attempts to overwrite the file with it; if
\* the write succeeds the storage holds the default catalog, and the default
\* catalog is returned also if it fails
C8_CorruptFileResetsToDefault ==
    /\ (pc = "start" /\ file.kind = "text" /\ file.content \in MalformedTexts)
       => \A w \in WriteOutcomes :
            ResetsToDefault(file, w) /\ load_data(file, w).path = "Corrupted"
    /\ path = "Corrupted"
       => /\ pc = "menu"
          /\ IsDefaultCatalog(library)
          /\ Holds(file, library) \/ file \in {TextFile(t) : t \in MalformedTexts}

\* a session has started on a file that is JSON but not a catalog, the write
\* of the default catalog could not open the file, and the default catalog
\* is in memory
C8_Witness ==
    /\ path = "Corrupted"
    /\ pc = "menu"
    /\ failures = 1
    /\ IsDefaultCatalog(library)
    /\ file.kind = "text"
    /\ file.content \in MalformedTexts
    /\ file.content.valid

\* the catalog load_data returned is the default one or the one the storage
\* holds
Usable(f, lib) == IsDefaultCatalog(lib) \/ Holds(f, lib)

\* C9: load_data never fails: on every storage state and for every outcome of
\* its write it returns a catalog (the one the file holds or the default),
\* and once it has run the session is at the menu with that catalog
C9_LoadNeverFails ==
    /\ pc = "start"
       => \A w \in WriteOutcomes :
            /\ load_data(file, w).path \in {"Seeded", "Unreadable", "Parsed", "Corrupted"}
            /\ Usable(file, load_data(file, w).library)
    /\ path # "none" => pc = "menu" /\ Usable(file, library)

\* a session has started on an unreadable file
C9_Witness ==
    /\ path = "Unreadable"
    /\ file.kind = "unreadable"
    /\ pc = "menu"
    /\ IsDefaultCatalog(library)

\* C10: a successful save_data of the catalog followed by load_data returns
\* the same books in the same order with the same field values
C10_SaveLoadRoundTrip ==
    pc = "menu" =>
        \A w \in WriteOutcomes :
            LET r == load_data(save_data(library, file, "ok"), w)
            IN /\ r.path = "Parsed"
               /\ Len(r.library.books) = Len(Books)
               /\ \A i \in 1..Len(Books) :
                     /\ r.library.books[i].id = Books[i].id
                     /\ r.library.books[i].title = Books[i].title
                     /\ r.library.books[i].author = Books[i].author
                     /\ r.library.books[i].copies_total = Books[i].copies_total
                     /\ r.library.books[i].copies_available
                            = Books[i].copies_available

\* a session has loaded a catalog that an earlier session saved: the default
\* books with one copy of B001 out (no storage file starts with that content)
C10_Witness ==
    /\ path = "Parsed"
    /\ Len(Books) = 4
    /\ Books[1].copies_total = 3
    /\ Books[1].copies_available = 2
    /\ Books[2].title = sPride
    /\ Holds(file, library)

\* ---------------------------------------------------------------- selection
\* the token read rd leaves (read_choice: the line without its surrounding
\* white space)
Token(rd) == read_choice(rd).text

\* the text is written as a number: decimal digits, possibly after a "+"
IsNumeric(text) ==
    LET digits == IF text # <<>> /\ Head(text) = "+" THEN Tail(text) ELSE text
    IN digits # <<>> /\ \A i \in 1..Len(digits) : digits[i] \in DOMAIN DigitValues

\* the decimal digits of n > 0
RECURSIVE Decimal(_)
Decimal(n) ==
    IF n < 10 THEN <<Digits[n + 1]>>
    ELSE Append(Decimal(n \div 10), Digits[(n % 10) + 1])

\* the numeric text denotes the number n
Denotes(text, n) ==
    StripZeros(IF Head(text) = "+" THEN Tail(text) ELSE text) = Decimal(n)

\* the candidate sets a session offers in its current state
CandidateSets == {available_indices(library), borrowed_indices(library)}

\* a selection that ended with a refusal message and no item
Refused(pick) == ~pick.some /\ pick.why \in {"InvalidSelection", "NotFound"}

\* C11: a numeric token n with 1 <= n <= L resolves to the n-th candidate,
\* any other numeric token is refused as not found, and a numeric token is
\* never matched against ids (even when a candidate has that token as id)
C11_NumericSelectsByPosition ==
    pc = "menu" =>
        \A rd \in SelectionReads, indices \in CandidateSets :
            (read_choice(rd).some /\ IsNumeric(Token(rd))) =>
                LET pick == select_book_index(library, indices, rd)
                IN /\ \A n \in 1..Len(indices) :
                        Denotes(Token(rd), n) => pick = Selected(indices[n])
                   /\ (\A n \in 1..Len(indices) : ~Denotes(Token(rd), n))
                        => Refused(pick)

\* the token cancels the selection: empty, or the letter q in either case
IsCancel(text) == text \in {<<>>, <<"q">>, <<"Q">>}

\* two texts are equal when letter case is ignored
SameIgnoringCase(a, b) ==
    /\ Len(a) = Len(b)
    /\ \A i \in 1..Len(a) : LowerChar(a[i]) = LowerChar(b[i])

\* the positions in the candidate set of the books whose id is the text,
\* letter case ignored
Matches(indices, text) ==
    {k \in 1..Len(indices) : SameIgnoringCase(Books[indices[k]].id, text)}

\* C12: an empty token or q/Q yields no selection before anything is matched
\* (also when a candidate has the id q); any other token that is not numeric
\* resolves to a candidate whose id equals it ignoring letter case, and is
\* refused as not found when no candidate has such an id
C12_IdSelectsIgnoringCase ==
    pc = "menu" =>
        \A rd \in SelectionReads, indices \in CandidateSets :
            read_choice(rd).some =>
                LET pick == select_book_index(library, indices, rd)
                IN /\ IsCancel(Token(rd)) => pick = NotSelected("Cancelled")
                   /\ (~IsCancel(Token(rd)) /\ ~IsNumeric(Token(rd))) =>
                        IF Matches(indices, Token(rd)) = {}
                        THEN pick = NotSelected("NotFound")
                        ELSE /\ pick.some
                             /\ \E k \in Matches(indices, Token(rd)) :
                                   pick.idx = indices[k]

\* the books with ids q and Zz are both offered for borrowing: the line Q
\* cancels, the line zz selects the book Zz, the line B001 finds nothing
C12_Witness ==
    /\ pc = "menu"
    /\ Len(Books) = 2
    /\ Books[1].id = <<"q">>
    /\ Books[2].id = <<"Z", "z">>
    /\ available_indices(library) = <<1, 2>>
    /\ select_book_index(library, <<1, 2>>, Line(<<"Q">>)) = NotSelected("Cancelled")
    /\ select_book_index(library, <<1, 2>>, Line(<<"z", "z">>)) = Selected(2)
    /\ select_book_index(library, <<1, 2>>, Line(sB001)) = NotSelected("NotFound")

\* ------------------------------------------------------------ frame effects
\* the call that ended as r left the catalog and the storage as they were
\* and attempted no write
NoEffect(r) ==
    /\ r.library = library
    /\ r.file = file
    /\ r.saved = "none"

\* every way a borrow or return can end without success
Unsuccessful ==
    {"ReadFailed", "Cancelled", "InvalidSelection", "NotFound", "NoneAvailable",
     "NoneBorrowed", "NoCopiesAvailable", "AllCopiesPresent"}

\* C13: a borrow or return attempt that ends without success leaves the
\* catalog as it was and writes nothing to the storage; so do the two views
\* and an invalid menu choice
C13_FailedAttemptChangesNothing ==
    /\ [](pc = "menu" =>
            \A rd \in SelectionReads, w \in WriteOutcomes :
                \A r \in {borrow_book(library, file, rd, w),
                          return_book(library, file, rd, w)} :
                    /\ ~Mutated(r) => r.outcome \in Unsuccessful /\ NoEffect(r)
                    /\ Mutated(r) => r.outcome \notin Unsuccessful)
    /\ [][(ViewAvailable \/ ViewBorrowed \/ InvalidChoice)
            => /\ library' = library
               /\ file' = file
               /\ failures' = failures
               /\ pc' = "menu"]_vars

\* the default catalog with nothing out, its file not yet written (the write
\* at startup failed): a return finds nothing borrowed, and a borrow can end
\* by a read failure, a cancellation, a position out of range, an unknown id
C13_Witness ==
    /\ pc = "menu"
    /\ IsDefaultCatalog(library)
    /\ file = MissingFile
    /\ failures = 1
    /\ return_book(library, file, Line(<<"1">>), "ok").outcome = "NoneBorrowed"
    /\ borrow_book(library, file, ReadError, "ok").outcome = "ReadFailed"
    /\ borrow_book(library, file, Line(<<"q">>), "ok").outcome = "Cancelled"
    /\ borrow_book(library, file, Line(<<"0">>), "ok").outcome = "InvalidSelection"
    /\ borrow_book(library, file, Line(<<"z", "z">>), "ok").outcome = "NotFound"

\* catalog `new` is catalog `lib` with copies_available of the book at index
\* sel changed by d (sel = 0: of no book): the same books in the same order,
\* with the same id, title, author and copies_total
SameBut(lib, new, sel, d) ==
    /\ Len(new.books) = Len(lib.books)
    /\ \A i \in 1..Len(lib.books) :
          /\ new.books[i].id = lib.books[i].id
          /\ new.books[i].title = lib.books[i].title
          /\ new.books[i].author = lib.books[i].author
          /\ new.books[i].copies_total = lib.books[i].copies_total
          /\ new.books[i].copies_available
                = lib.books[i].copies_available + (IF i = sel THEN d ELSE 0)

\* C14: a successful borrow takes exactly 1 from copies_available of exactly
\* the selected book, a successful return adds exactly 1 to it, and no step
\* of a session adds, removes or reorders books or changes anything else
C14_CatalogFixedButOneCount ==
    /\ [](pc = "menu" =>
            \A rd \in SelectionReads, w \in WriteOutcomes :
                LET b == borrow_book(library, file, rd, w)
                    r == return_book(library, file, rd, w)
                IN /\ b.outcome = "Borrowed" =>
                        /\ select_book_index(library, available_indices(library), rd)
                              = Selected(b.sel)
                        /\ SameBut(library, b.library, b.sel, -1)
                   /\ r.outcome = "Returned" =>
                        /\ select_book_index(library, borrowed_indices(library), rd)
                              = Selected(r.sel)
                        /\ SameBut(library, r.library, r.sel, 1)
                   /\ b.outcome # "Borrowed" => SameBut(library, b.library, 0, 0)
                   /\ r.outcome # "Returned" => SameBut(library, r.library, 0, 0))
    /\ [][pc = "menu" =>
            \E sel \in 0..Len(Books), d \in {-1, 0, 1} :
                SameBut(library, library', sel, d)]_vars

\* the default catalog after a borrow of its second book: one copy of B002
\* is out, every other field of every book is as in the default catalog, and
\* the storage holds this catalog
C14_Witness ==
    /\ pc = "menu"
    /\ SameBut(default_library, library, 2, -1)
    /\ Holds(file, library)
    /\ return_book(library, file, Line(<<"1">>), "ok").outcome = "Returned"
    /\ IsDefaultCatalog(return_book(library, file, Line(<<"1">>), "ok").library)

\* ------------------------------------------------------------- termination
\* C15: once the input is at its end, the menu loop eventually terminates
\* the session
C15_EndOfInputTerminates == <>(pc = "exited")

\* ----------------------------------------------------------- candidate sets
\* the sequence lists exactly the indices of the set, in increasing order
\* and each once
ListsInOrder(indices, set) ==
    /\ {indices[k] : k \in 1..Len(indices)} = set
    /\ \A j, k \in 1..Len(indices) : j < k => indices[j] < indices[k]

\* C16: the candidates for borrowing are exactly the books with
\* copies_available > 0 and the candidates for returning exactly the books
\* with copies_total - copies_available > 0, each in catalog order, none
\* missing, none twice; a book within bounds is in one of the two sets unless
\* its copies_total is 0
C16_CandidateSetsExact ==
    [](pc = "menu" =>
        /\ ListsInOrder(available_indices(library),
                        {i \in 1..Len(Books) : Books[i].copies_available > 0})
        /\ ListsInOrder(borrowed_indices(library),
                        {i \in 1..Len(Books) :
                            Books[i].copies_total - Books[i].copies_available > 0})
        /\ \A i \in 1..Len(Books) :
              ( /\ 0 <= Books[i].copies_available
                /\ Books[i].copies_available <= Books[i].copies_total
                /\ Books[i].copies_total # 0 )
              => \/ \E k \in 1..Len(available_indices(library)) :
                       available_indices(library)[k] = i
                 \/ \E k \in 1..Len(borrowed_indices(library)) :
                       borrowed_indices(library)[k] = i
        /\ \A rd \in SelectionReads, w \in WriteOutcomes :
              /\ borrow_book(library, file, rd, w).outcome = "NoneAvailable"
                    <=> available_indices(library) = <<>>
              /\ return_book(library, file, rd, w).outcome = "NoneBorrowed"
                    <=> borrowed_indices(library) = <<>>)

\* the default catalog with every copy of B001 out, B002 complete and one
\* copy of B003 out: B001 is offered for return only, B002 for borrowing
\* only, B003 for both
C16_Witness ==
    /\ pc = "menu"
    /\ Len(Books) = 4
    /\ Books[1].copies_available = 0
    /\ Books[2].copies_available = Books[2].copies_total
    /\ Books[3].copies_available = 3
    /\ Books[4].copies_available = Books[4].copies_total
    /\ available_indices(library) = <<2, 3, 4>>
    /\ borrowed_indices(library) = <<1, 3>>

\* ------------------------------------------------------------------ bounds
\* how far copies_available of a book is outside [0, copies_total]
Outside(book) ==
    IF book.copies_available < 0 THEN 0 - book.copies_available
    ELSE IF book.copies_available > book.copies_total
    THEN book.copies_available - book.copies_total
    ELSE 0

\* from catalog `lib` to catalog `new` no copies_available of 0 went down,
\* none that was at or above copies_total went up, and none is further
\* outside [0, copies_total] than it was
BoundsEnforced(lib, new) ==
    /\ Len(new.books) = Len(lib.books)
    /\ \A i \in 1..Len(lib.books) :
          /\ new.books[i].copies_available >= 0
          /\ new.books[i].copies_available < lib.books[i].copies_available
                => lib.books[i].copies_available > 0
          /\ new.books[i].copies_available > lib.books[i].copies_available
                => lib.books[i].copies_available < lib.books[i].copies_total
          /\ Outside(new.books[i]) <= Outside(lib.books[i])

\* C17: from any catalog, also one loaded with counts out of bounds, borrow
\* never takes a copy from a copies_available of 0 and return never adds one
\* to a copies_available that is at or above copies_total, so that no
\* copies_available moves further outside [0, copies_total] than it was
C17_BoundsEnforcedFromAnyCatalog ==
    /\ [](pc = "menu" =>
            \A rd \in SelectionReads, w \in WriteOutcomes :
                /\ BoundsEnforced(library, borrow_book(library, file, rd, w).library)
                /\ BoundsEnforced(library, return_book(library, file, rd, w).library))
    /\ [][pc = "menu" => BoundsEnforced(library, library')]_vars

\* a catalog loaded from a file that records more copies available of its
\* one book than it has in total: the book is not offered for return, and a
\* borrow takes one copy, which brings the count nearer to its bound
C17_Witness ==
    /\ pc = "menu"
    /\ path = "Parsed"
    /\ Len(Books) = 1
    /\ Books[1].copies_available > Books[1].copies_total
    /\ return_book(library, file, Line(<<"1">>), "ok").outcome = "NoneBorrowed"
    /\ borrow_book(library, file, Line(<<"1">>), "ok").outcome = "Borrowed"
    /\ Outside(borrow_book(library, file, Line(<<"1">>), "ok").library.books[1])
         < Outside(Books[1])

\* ---------------------------------------------------------- unreadable file
\* the catalog is the default one but for its copies_available counts
FromDefault(lib) ==
    /\ Len(lib.books) = Len(default_library.books)
    /\ \A i \in 1..Len(lib.books) :
          /\ lib.books[i].id = default_library.books[i].id
          /\ lib.books[i].title = default_library.books[i].title
          /\ lib.books[i].author = default_library.books[i].author
          /\ lib.books[i].copies_total = default_library.books[i].copies_total

\* C18: when the storage file exists but cannot be read, load_data returns
\* the default catalog and writes nothing; the file stays as it is until a
\* successful borrow or return, whose save (when it succeeds) replaces it
\* with the catalog in memory, which derives from the default one
C18_UnreadableFileKeptUntilSaved ==
    /\ []((pc = "start" /\ file = UnreadableFile) =>
            \A w \in WriteOutcomes :
                /\ IsDefaultCatalog(load_data(file, w).library)
                /\ load_data(file, w).saved = "none"
                /\ load_data(file, w).file = file)
    /\ []((pc = "menu" /\ file = UnreadableFile) =>
            /\ FromDefault(library)
            /\ \A rd \in SelectionReads, w \in WriteOutcomes :
                  \A r \in {borrow_book(library, file, rd, w),
                            return_book(library, file, rd, w)} :
                      /\ ~Mutated(r) => r.file = file
                      /\ (Mutated(r) /\ w = "ok") =>
                            Holds(r.file, r.library) /\ FromDefault(r.library))
    /\ [][(file = UnreadableFile /\ file' # file)
            => /\ pc = "menu"
               /\ library' # library
               /\ FromDefault(library')]_vars

\* a session on an unreadable file in which a borrow succeeded but its save
\* could not open the file: the file is still as it was, and the next
\* successful borrow with a successful save replaces it
C18_Witness ==
    /\ pc = "menu"
    /\ file = UnreadableFile
    /\ failures = 1
    /\ FromDefault(library)
    /\ ~IsDefaultCatalog(library)
    /\ Holds(borrow_book(library, file, Line(<<"1">>), "ok").file,
             borrow_book(library, file, Line(<<"1">>), "ok").library)

\* ------------------------------------------------------------ duplicate ids
\* two books of the catalog share an id
HasDuplicateIds(lib) ==
    \E i, j \in 1..Len(lib.books) : i < j /\ lib.books[i].id = lib.books[j].id

\* copies_available of the book is within [0, copies_total]
InBounds(book) ==
    0 <= book.copies_available /\ book.copies_available <= book.copies_total

\* the smallest element of a nonempty set of positions
First(positions) == CHOOSE k \in positions : \A m \in positions : k <= m

\* the call that ended as r changed copies_available of the book that pick
\* selected, by d, and nothing else; no book left [0, copies_total]
ChangedOnly(r, pick, d) ==
    /\ pick.some
    /\ r.sel = pick.idx
    /\ SameBut(library, r.library, pick.idx, d)
    /\ \A i \in 1..Len(Books) : InBounds(Books[i]) => InBounds(r.library.books[i])

\* C19: in a catalog where books share an id, selection by id resolves to
\* the first candidate that carries it, the borrow or return that follows
\* changes copies_available of that book only, and no step of the session
\* takes a book out of [0, copies_total] or alters a book not selected
C19_DuplicateIdsFirstMatch ==
    /\ []((pc = "menu" /\ HasDuplicateIds(library)) =>
            \A rd \in SelectionReads :
                /\ \A indices \in CandidateSets :
                      ( /\ read_choice(rd).some
                        /\ ~IsCancel(Token(rd))
                        /\ ~IsNumeric(Token(rd))
                        /\ Matches(indices, Token(rd)) # {} )
                      => select_book_index(library, indices, rd)
                           = Selected(indices[First(Matches(indices, Token(rd)))])
                /\ \A w \in WriteOutcomes :
                      LET b == borrow_book(library, file, rd, w)
                          r == return_book(library, file, rd, w)
                      IN /\ IF Mutated(b)
                            THEN ChangedOnly(b, select_book_index(library,
                                     available_indices(library), rd), -1)
                            ELSE b.library = library
                         /\ IF Mutated(r)
                            THEN ChangedOnly(r, select_book_index(library,
                                     borrowed_indices(library), rd), 1)
                            ELSE r.library = library)
    /\ [][(pc = "menu" /\ HasDuplicateIds(library)) =>
            /\ \E sel \in 0..Len(Books), d \in {-1, 0, 1} :
                  SameBut(library, library', sel, d)
            /\ \A i \in 1..Len(Books) :
                  InBounds(Books[i]) => InBounds(library'.books[i])]_vars

\* two books with the id B001, the first with its one copy out, the second
\* complete: the line B001 borrows the second book (the first is not a
\* candidate) and returns the first
C19_Witness ==
    /\ pc = "menu"
    /\ Len(Books) = 2
    /\ Books[1].id = sB001
    /\ Books[2].id = sB001
    /\ Books[1].copies_available = 0
    /\ Books[2].copies_available = Books[2].copies_total
    /\ Books[2].copies_available > 0
    /\ borrow_book(library, file, Line(sB001), "ok").sel = 2
    /\ return_book(library, file, Line(sB001), "ok").sel = 1
    /\ return_book(library, file, Line(sB001), "ok").library.books[2] = Books[2]

\* --------------------------------------------------------- resolved selection
\* every selection that resolves in borrow_book refers to a book with a copy
\* available and is accepted, every selection that resolves in return_book
\* refers to a book with a copy out and is accepted, the two guards are never
\* taken, and a book with no copy available is never the one borrowed
ResolvedIsAccepted(rd, w) ==
    LET b == borrow_book(library, file, rd, w)
        r == return_book(library, file, rd, w)
        pickB == select_book_index(library, available_indices(library), rd)
        pickR == select_book_index(library, borrowed_indices(library), rd)
    IN /\ (available_indices(library) # <<>> /\ pickB.some) =>
            /\ Books[pickB.idx].copies_available > 0
            /\ b.outcome = "Borrowed"
            /\ b.sel = pickB.idx
       /\ (borrowed_indices(library) # <<>> /\ pickR.some) =>
            /\ Books[pickR.idx].copies_available < Books[pickR.idx].copies_total
            /\ r.outcome = "Returned"
            /\ r.sel = pickR.idx
       /\ b.outcome # "NoCopiesAvailable"
       /\ r.outcome # "AllCopiesPresent"
       /\ \A i \in 1..Len(Books) :
             Books[i].copies_available = 0 => ~(Mutated(b) /\ b.sel = i)

====
